---- MODULE Spec2Model ----
(***************************************************************************)
(* tempus-bede: liturgical calendar service.                               *)
(*                                                                         *)
(* Part 1 models src/utils/date.ts (formatDate, parseDate, isValidDate)    *)
(* on top of the ECMAScript Date arithmetic it calls.  Strings are TLA+    *)
(* strings handled with Len, SubSeq and \o.  A Date is a record holding    *)
(* its time value; the time value is counted in hours since                *)
(* 1970-01-01T00:00Z (every instant and every zone offset of the model is  *)
(* a whole number of hours).                                               *)
(***************************************************************************)
EXTENDS Integers, Sequences, FiniteSets, TLC

VARIABLES
    hostOffset,    \* host time zone: local time = UTC + hostOffset hours
    supportedDioceses, \* the exported array SUPPORTED_DIOCESES of calendar.ts
    dateString,    \* date utilities: the string handed to parseDate
    parsed,        \* date utilities: result of parseDate(dateString)
    formatted,     \* date utilities: result of formatDate(parsed)
    dpc,           \* date utilities: "start" -> "parsed" -> "formatted"
    calendarCache, \* Map<string, Map<string, RomcalDay>> of calendar.ts
    last,          \* what the latest step did: operation, arguments, outcome
    tracked,       \* since the latest clear: an earlier getLiturgicalDay call,
                   \* and the engine invocations that returned, per cache key
    pending        \* route handlers suspended at their await, oldest first

dateVars == <<dateString, parsed, formatted, dpc>>

serviceVars == <<calendarCache, last, tracked, pending>>

vars == <<hostOffset, supportedDioceses, dateString, parsed, formatted, dpc,
          calendarCache, last, tracked, pending>>

(***************************************************************************)
(* JavaScript values                                                       *)
(***************************************************************************)
Null == [kind |-> "null"]

MkDate(t) == [kind |-> "Date", time |-> t]

(***************************************************************************)
(* String helpers: s.charAt, \d, parseInt(s, 10), String(n), padStart      *)
(***************************************************************************)
DigitChars == "0123456789"

CharAt(s, i) == SubSeq(s, i, i)

\* The value of each decimal digit character.
DigitValues ==
    [c \in {CharAt(DigitChars, i) : i \in 1..10} |->
        (CHOOSE i \in 1..10 : CharAt(DigitChars, i) = c) - 1]

IsDigit(c) == c \in DOMAIN DigitValues

DigitVal(c) == DigitValues[c]

RECURSIVE parseInt(_)
parseInt(s) ==
    IF Len(s) = 0 THEN 0
    ELSE 10 * parseInt(SubSeq(s, 1, Len(s) - 1)) + DigitVal(CharAt(s, Len(s)))

RECURSIVE NatToString(_)
NatToString(n) ==
    IF n < 10 THEN CharAt(DigitChars, n + 1)
    ELSE NatToString(n \div 10) \o CharAt(DigitChars, (n % 10) + 1)

\* String(n) / template interpolation of a number
NumberToString(n) == IF n < 0 THEN "-" \o NatToString(0 - n) ELSE NatToString(n)

RECURSIVE padStart(_, _, _)
padStart(s, targetLength, fill) ==
    IF Len(s) >= targetLength THEN s ELSE padStart(fill \o s, targetLength, fill)

\* The text "YYYY-MM-DD" written for three numbers, zero padded.
ComposeDateString(y, m, d) ==
    padStart(NatToString(y), 4, "0") \o "-" \o padStart(NatToString(m), 2, "0")
        \o "-" \o padStart(NatToString(d), 2, "0")

(***************************************************************************)
(* ECMAScript Date arithmetic (proleptic Gregorian calendar)               *)
(***************************************************************************)
\* Day number (days since 1970-01-01) of year y, month m (1..12), day 1.
DayFromYearMonth(y, m) ==
    LET yy  == IF m <= 2 THEN y - 1 ELSE y
        era == yy \div 400
        yoe == yy - era * 400
        mp  == IF m > 2 THEN m - 3 ELSE m + 9
        doy == (153 * mp + 2) \div 5
        doe == yoe * 365 + yoe \div 4 - yoe \div 100 + doy
    IN  era * 146097 + doe - 719468

\* [year, month (0..11), date] of a day number.
CivilFromDay(z) ==
    LET zz  == z + 719468
        era == zz \div 146097
        doe == zz - era * 146097
        yoe == (doe - doe \div 1460 + doe \div 36524 - doe \div 146096) \div 365
        doy == doe - (365 * yoe + yoe \div 4 - yoe \div 100)
        mp  == (5 * doy + 2) \div 153
        d   == doy - (153 * mp + 2) \div 5 + 1
        m   == IF mp < 10 THEN mp + 3 ELSE mp - 9
        y   == yoe + era * 400 + (IF m <= 2 THEN 1 ELSE 0)
    IN  [year |-> y, month |-> m - 1, date |-> d]

\* Date.UTC(year, monthIndex, day) wrapped in new Date(...): a year 0..99 is
\* taken as 1900 + year, and month and day overflow into the neighbours.
DateUTC(year, monthIndex, day) ==
    LET yr == IF 0 <= year /\ year <= 99 THEN 1900 + year ELSE year
        ym == yr + (monthIndex \div 12)
        mn == monthIndex % 12
    IN  MkDate((DayFromYearMonth(ym, mn + 1) + day - 1) * 24)

getUTCFullYear(date) == CivilFromDay(date.time \div 24).year
getUTCMonth(date)    == CivilFromDay(date.time \div 24).month
getUTCDate(date)     == CivilFromDay(date.time \div 24).date

\* The local-time getters read the calendar day of UTC + host offset.
getFullYear(date, offset) == CivilFromDay((date.time + offset) \div 24).year
getMonth(date, offset)    == CivilFromDay((date.time + offset) \div 24).month
getDate(date, offset)     == CivilFromDay((date.time + offset) \div 24).date

(***************************************************************************)
(* src/utils/date.ts                                                       *)
(***************************************************************************)
AllDigits(s) == \A i \in 1..Len(s) : IsDigit(CharAt(s, i))

\* /^(\d{4})-(\d{2})-(\d{2})$/ without the anchors: some substring matches.
dateRegexUnanchored(s) ==
    \E k \in 0..(Len(s) - 10) :
        /\ AllDigits(SubSeq(s, k + 1, k + 4))
        /\ CharAt(s, k + 5) = "-"
        /\ AllDigits(SubSeq(s, k + 6, k + 7))
        /\ CharAt(s, k + 8) = "-"
        /\ AllDigits(SubSeq(s, k + 9, k + 10))

\* dateString.match(/^(\d{4})-(\d{2})-(\d{2})$/) succeeds
dateRegex(s) ==
    /\ Len(s) = 10
    /\ AllDigits(SubSeq(s, 1, 4))
    /\ CharAt(s, 5) = "-"
    /\ AllDigits(SubSeq(s, 6, 7))
    /\ CharAt(s, 8) = "-"
    /\ AllDigits(SubSeq(s, 9, 10))

\* parseDate that trusts the pattern and skips the component comparison
parseDateUnchecked(s) ==
    IF ~dateRegex(s) THEN Null
    ELSE DateUTC(parseInt(SubSeq(s, 1, 4)), parseInt(SubSeq(s, 6, 7)) - 1,
                 parseInt(SubSeq(s, 9, 10)))

parseDate(s) ==
    IF ~dateRegex(s) THEN Null
    ELSE LET year  == parseInt(SubSeq(s, 1, 4))
             month == parseInt(SubSeq(s, 6, 7))
             day   == parseInt(SubSeq(s, 9, 10))
             date  == DateUTC(year, month - 1, day)
         IN  IF \/ getUTCFullYear(date) # year
                \/ getUTCMonth(date) # month - 1
                \/ getUTCDate(date) # day
             THEN Null
             ELSE date

isValidDate(s) == parseDate(s) # Null

\* formatDate reads the host-local calendar fields of the Date.
formatDate(date, offset) ==
    LET year  == getFullYear(date, offset)
        month == padStart(NumberToString(getMonth(date, offset) + 1), 2, "0")
        day   == padStart(NumberToString(getDate(date, offset)), 2, "0")
    IN  NumberToString(year) \o "-" \o month \o "-" \o day

(***************************************************************************)
(* src/utils/calendar.ts: diocese registry                                 *)
(***************************************************************************)
DIOCESE_TO_COUNTRY ==
    ("united-states" :> "unitedStates") @@ ("england" :> "england") @@
    ("italy" :> "italy") @@ ("france" :> "france") @@
    ("spain" :> "spain") @@ ("germany" :> "germany")

\* The list in alphabetical order
SUPPORTED_DIOCESES_Sorted ==
    <<"england", "france", "germany", "italy", "spain", "united-states">>

\* The array literal that SUPPORTED_DIOCESES is declared with
SUPPORTED_DIOCESES ==
    <<"united-states", "england", "italy", "france", "spain", "germany">>

DEFAULT_DIOCESE == "united-states"

\* A validity test that lets every code through
isValidDioceseAny(diocese) == TRUE

\* A validity test that also accepts the engine's country names
isValidDioceseOrCountry(diocese) ==
    \/ \E i \in DOMAIN supportedDioceses : supportedDioceses[i] = diocese
    \/ \E k \in DOMAIN DIOCESE_TO_COUNTRY : DIOCESE_TO_COUNTRY[k] = diocese

\* SUPPORTED_DIOCESES.includes(diocese)
isValidDiocese(diocese) ==
    \E i \in DOMAIN supportedDioceses : supportedDioceses[i] = diocese

\* What an object literal inherits from Object.prototype.  A function or
\* object value is written as the text String() gives for it (the text that
\* `${year}-${country}` would contain).
ObjectPrototype ==
    ("constructor" :> "function Object() { [native code] }") @@
    ("toString" :> "function toString() { [native code] }") @@
    ("valueOf" :> "function valueOf() { [native code] }") @@
    ("hasOwnProperty" :> "function hasOwnProperty() { [native code] }") @@
    ("__proto__" :> "[object Object]")

\* obj[key] on an object literal: own property, else inherited, else
\* undefined (written "", which is as falsy as undefined)
GetProperty(obj, key) ==
    IF key \in DOMAIN obj THEN obj[key]
    ELSE IF key \in DOMAIN ObjectPrototype THEN ObjectPrototype[key]
    ELSE ""

\* DIOCESE_TO_COUNTRY[diocese] || diocese
dioceseToCountry(diocese) ==
    IF GetProperty(DIOCESE_TO_COUNTRY, diocese) # ""
    THEN GetProperty(DIOCESE_TO_COUNTRY, diocese)
    ELSE diocese

(***************************************************************************)
(* The calendar engine (romcal's calendarFor), an external collaborator:   *)
(* a deterministic list of raw day records per (year, country).  The model *)
(* keeps a handful of days of each year; some records carry their moment   *)
(* as an ISO string, others as a moment object.  An absent string field is *)
(* the empty string (the code reads every such field through || '').       *)
(***************************************************************************)
IsoMoment(y, m, d) ==
    [kind |-> "string", value |-> ComposeDateString(y, m, d) \o "T00:00:00.000Z"]

ObjectMoment(y, m, d) ==
    [kind |-> "moment", value |-> ComposeDateString(y, m, d)]

NoColor == [kind |-> "none", keys |-> <<>>]

OneColor(k) == [kind |-> "one", keys |-> <<k>>]

ColorList(ks) == [kind |-> "list", keys |-> ks]

RomcalDay(moment, type, key, season, color) ==
    [moment |-> moment, type |-> type, name |-> key, key |-> key,
     season |-> season, liturgicalColor |-> color]

CalendarFor(year, country) ==
    <<RomcalDay(IsoMoment(year, 1, 1), "SOLEMNITY", "maryMotherOfGod",
                "CHRISTMASTIDE", OneColor("WHITE"))>>
    \o (IF country = "england"
        THEN <<RomcalDay(ObjectMoment(year, 4, 23), "FEAST", "saintGeorge",
                         "EASTER", ColorList(<<"RED">>))>>
        ELSE <<>>)
    \o <<RomcalDay(ObjectMoment(year, 12, 24), "FERIA", "", "ADVENT",
                   ColorList(<<"VIOLET">>)),
         IF country = "england"
         THEN RomcalDay(ObjectMoment(year, 12, 25), "SOLEMNITY", "christmas",
                        "CHRISTMASTIDE", ColorList(<<"WHITE">>))
         ELSE RomcalDay(IsoMoment(year, 12, 25), "SOLEMNITY", "christmas",
                        "CHRISTMASTIDE", ColorList(<<"WHITE", "GOLD">>)),
         RomcalDay(IsoMoment(year, 12, 31), "OPT_MEMORIAL", "saintSylvesterI",
                   "", NoColor)>>

\* The engine's answers for the years and countries the inputs reach, worked
\* out once.
EngineYears == 2024..2027

EngineCountries == {"unitedStates", "england"}

EngineTable == [y \in EngineYears, c \in EngineCountries |-> CalendarFor(y, c)]

EngineCalendar(year, country) ==
    IF year \in EngineYears /\ country \in EngineCountries
    THEN EngineTable[year, country]
    ELSE CalendarFor(year, country)

\* How one engine invocation goes: it returns its records, it throws, or the
\* record at index `at` is broken and reading its moment throws.
EngineOk == [kind |-> "ok", at |-> 0]

EngineBehaviours ==
    {EngineOk, [kind |-> "throws", at |-> 0]}
        \cup {[kind |-> "badRecord", at |-> k] : k \in {3}}

(***************************************************************************)
(* src/utils/calendar.ts: calendar cache                                   *)
(***************************************************************************)
EmptyMap == [k \in {} |-> Null]

\* map.set(key, value)
MapSet(map, key, value) == (key :> value) @@ map

\* s.split('T')[0]
BeforeT(s) ==
    IF \E i \in 1..Len(s) : CharAt(s, i) = "T"
    THEN SubSeq(s, 1, (CHOOSE i \in 1..Len(s) :
                          /\ CharAt(s, i) = "T"
                          /\ \A j \in 1..(i - 1) : CharAt(s, j) # "T") - 1)
    ELSE s

\* typeof day.moment === 'string' ? day.moment.split('T')[0] ?? ''
\*                                : day.moment.format('YYYY-MM-DD')
MomentDate(day) ==
    IF day.moment.kind = "string" THEN BeforeT(day.moment.value)
    ELSE day.moment.value

\* A key made of the year alone
CacheKeyYearOnly(year, country) == NumberToString(year)

\* `${year}-${country}`
CacheKey(year, country) == NumberToString(year) \o "-" \o country

\* The for loop of getCalendar over the first n records.
RECURSIVE BuildDateMap(_, _)
BuildDateMap(calendar, n) ==
    IF n = 0 THEN EmptyMap
    ELSE LET dateMap == BuildDateMap(calendar, n - 1)
             dateStr == MomentDate(calendar[n])
         IN  IF dateStr # "" THEN MapSet(dateMap, dateStr, calendar[n]) ELSE dateMap

\* getCalendar without the calendarCache.set
getCalendarNeverStores(cache, year, country, eng) ==
    LET cacheKey == CacheKey(year, country)
        calendar == EngineCalendar(year, country)
    IN  IF cacheKey \in DOMAIN cache
        THEN [threw |-> FALSE, calendar |-> cache[cacheKey], cache |-> cache, calls |-> 0]
        ELSE IF eng.kind = "throws" \/ (eng.kind = "badRecord" /\ eng.at <= Len(calendar))
        THEN [threw |-> TRUE, calendar |-> Null, cache |-> cache, calls |-> 1]
        ELSE [threw |-> FALSE, calendar |-> BuildDateMap(calendar, Len(calendar)),
              cache |-> cache, calls |-> 1]

\* getCalendar without the calendarCache.has test
getCalendarIgnoresHit(cache, year, country, eng) ==
    LET cacheKey == CacheKey(year, country)
        calendar == EngineCalendar(year, country)
    IN  IF eng.kind = "throws" \/ (eng.kind = "badRecord" /\ eng.at <= Len(calendar))
        THEN [threw |-> TRUE, calendar |-> Null, cache |-> cache, calls |-> 1]
        ELSE CHOOSE out \in
                 { [threw |-> FALSE, calendar |-> dateMap,
                    cache |-> MapSet(cache, cacheKey, dateMap), calls |-> 1]
                   : dateMap \in {BuildDateMap(calendar, Len(calendar))} } : TRUE

\* getCalendar that stores the map under the key before filling it
getCalendarStoreFirst(cache, year, country, eng) ==
    LET cacheKey == CacheKey(year, country)
        calendar == EngineCalendar(year, country)
    IN  IF cacheKey \in DOMAIN cache
        THEN [threw |-> FALSE, calendar |-> cache[cacheKey], cache |-> cache, calls |-> 0]
        ELSE IF eng.kind = "throws"
        THEN [threw |-> TRUE, calendar |-> Null, cache |-> cache, calls |-> 1]
        ELSE IF eng.kind = "badRecord" /\ eng.at <= Len(calendar)
        THEN [threw |-> TRUE, calendar |-> Null, calls |-> 1,
              cache |-> MapSet(cache, cacheKey, BuildDateMap(calendar, eng.at - 1))]
        ELSE CHOOSE out \in
                 { [threw |-> FALSE, calendar |-> dateMap,
                    cache |-> MapSet(cache, cacheKey, dateMap), calls |-> 1]
                   : dateMap \in {BuildDateMap(calendar, Len(calendar))} } : TRUE

\* getCalendar whose cache keeps only the entry stored last
getCalendarSingleEntry(cache, year, country, eng) ==
    LET cacheKey == CacheKey(year, country)
        calendar == EngineCalendar(year, country)
    IN  IF cacheKey \in DOMAIN cache
        THEN [threw |-> FALSE, calendar |-> cache[cacheKey], cache |-> cache, calls |-> 0]
        ELSE IF eng.kind = "throws" \/ (eng.kind = "badRecord" /\ eng.at <= Len(calendar))
        THEN [threw |-> TRUE, calendar |-> Null, cache |-> cache, calls |-> 1]
        ELSE CHOOSE out \in
                 { [threw |-> FALSE, calendar |-> dateMap,
                    cache |-> MapSet(EmptyMap, cacheKey, dateMap), calls |-> 1]
                   : dateMap \in {BuildDateMap(calendar, Len(calendar))} } : TRUE

\* getCalendar that remembers a failure as an empty calendar
getCalendarCachesFailure(cache, year, country, eng) ==
    LET cacheKey == CacheKey(year, country)
        calendar == EngineCalendar(year, country)
    IN  IF cacheKey \in DOMAIN cache
        THEN [threw |-> FALSE, calendar |-> cache[cacheKey], cache |-> cache, calls |-> 0]
        ELSE IF eng.kind = "throws" \/ (eng.kind = "badRecord" /\ eng.at <= Len(calendar))
        THEN [threw |-> TRUE, calendar |-> Null, calls |-> 1,
              cache |-> MapSet(cache, cacheKey, EmptyMap)]
        ELSE CHOOSE out \in
                 { [threw |-> FALSE, calendar |-> dateMap,
                    cache |-> MapSet(cache, cacheKey, dateMap), calls |-> 1]
                   : dateMap \in {BuildDateMap(calendar, Len(calendar))} } : TRUE

\* getCalendar that stores an empty placeholder under the key and hands the
\* finished map only to its caller
getCalendarStoresPlaceholder(cache, year, country, eng) ==
    LET cacheKey == CacheKey(year, country)
        calendar == EngineCalendar(year, country)
    IN  IF cacheKey \in DOMAIN cache
        THEN [threw |-> FALSE, calendar |-> cache[cacheKey], cache |-> cache, calls |-> 0]
        ELSE IF eng.kind = "throws" \/ (eng.kind = "badRecord" /\ eng.at <= Len(calendar))
        THEN [threw |-> TRUE, calendar |-> Null, cache |-> cache, calls |-> 1]
        ELSE CHOOSE out \in
                 { [threw |-> FALSE, calendar |-> dateMap,
                    cache |-> MapSet(cache, cacheKey, EmptyMap), calls |-> 1]
                   : dateMap \in {BuildDateMap(calendar, Len(calendar))} } : TRUE

\* getCalendar(year, country) on cache `cache` when the engine behaves as
\* `eng`: whether it threw, the map it returned, the cache it leaves and the
\* number of engine invocations it made.
getCalendar(cache, year, country, eng) ==
    LET cacheKey == CacheKey(year, country)
        calendar == EngineCalendar(year, country)
    IN  IF cacheKey \in DOMAIN cache
        THEN [threw |-> FALSE, calendar |-> cache[cacheKey], cache |-> cache, calls |-> 0]
        ELSE IF eng.kind = "throws"
        THEN [threw |-> TRUE, calendar |-> Null, cache |-> cache, calls |-> 1]
        ELSE IF eng.kind = "badRecord" /\ eng.at <= Len(calendar)
        THEN [threw |-> TRUE, calendar |-> Null, cache |-> cache, calls |-> 1]
        ELSE CHOOSE out \in
                 { [threw |-> FALSE, calendar |-> dateMap,
                    cache |-> MapSet(cache, cacheKey, dateMap), calls |-> 1]
                   : dateMap \in {BuildDateMap(calendar, Len(calendar))} } : TRUE

(***************************************************************************)
(* src/utils/calendar.ts: response normalizer                              *)
(***************************************************************************)
UpperChars == "ABCDEFGHIJKLMNOPQRSTUVWXYZ"

LowerChars == "abcdefghijklmnopqrstuvwxyz"

\* The lower-case letter of each upper-case letter.
LowerOf ==
    [c \in {CharAt(UpperChars, i) : i \in 1..26} |->
        CharAt(LowerChars, CHOOSE i \in 1..26 : CharAt(UpperChars, i) = c)]

RECURSIVE toLowerCase(_)
toLowerCase(s) ==
    IF Len(s) = 0 THEN ""
    ELSE (IF CharAt(s, 1) \in DOMAIN LowerOf THEN LowerOf[CharAt(s, 1)] ELSE CharAt(s, 1))
             \o toLowerCase(SubSeq(s, 2, Len(s)))

\* A normalizer that reports the raw moment text as the date
toLiturgicalDayResponseRawMoment(day) ==
    LET colors == IF day.liturgicalColor.kind = "none" THEN <<>>
                  ELSE [i \in DOMAIN day.liturgicalColor.keys |->
                            toLowerCase(day.liturgicalColor.keys[i])]
        type == day.type
    IN  [date |-> day.moment.value, id |-> day.key, name |-> day.name,
         rank |-> type, season |-> day.season, color |-> colors,
         isFeast |-> (type = "FEAST"), isSolemnity |-> (type = "SOLEMNITY"),
         isOptional |-> (type = "OPT_MEMORIAL")]

\* A normalizer that also flags every solemnity as a feast
toLiturgicalDayResponseFeastOrAbove(day) ==
    LET colors == IF day.liturgicalColor.kind = "none" THEN <<>>
                  ELSE [i \in DOMAIN day.liturgicalColor.keys |->
                            toLowerCase(day.liturgicalColor.keys[i])]
        type == day.type
    IN  [date |-> MomentDate(day), id |-> day.key, name |-> day.name,
         rank |-> type, season |-> day.season, color |-> colors,
         isFeast |-> (type \in {"FEAST", "SOLEMNITY"}),
         isSolemnity |-> (type = "SOLEMNITY"),
         isOptional |-> (type = "OPT_MEMORIAL")]

\* A normalizer that keeps only the first colour of a list
toLiturgicalDayResponseFirstColor(day) ==
    LET colors == IF day.liturgicalColor.keys = <<>> THEN <<>>
                  ELSE <<toLowerCase(day.liturgicalColor.keys[1])>>
        type == day.type
    IN  [date |-> MomentDate(day), id |-> day.key, name |-> day.name,
         rank |-> type, season |-> day.season, color |-> colors,
         isFeast |-> (type = "FEAST"), isSolemnity |-> (type = "SOLEMNITY"),
         isOptional |-> (type = "OPT_MEMORIAL")]

toLiturgicalDayResponse(day) ==
    LET colors == IF day.liturgicalColor.kind = "none" THEN <<>>
                  ELSE [i \in DOMAIN day.liturgicalColor.keys |->
                            toLowerCase(day.liturgicalColor.keys[i])]
        type == day.type
    IN  [date |-> MomentDate(day), id |-> day.key, name |-> day.name,
         rank |-> type, season |-> day.season, color |-> colors,
         isFeast |-> (type = "FEAST"), isSolemnity |-> (type = "SOLEMNITY"),
         isOptional |-> (type = "OPT_MEMORIAL")]

(***************************************************************************)
(* src/utils/calendar.ts: day resolver                                     *)
(***************************************************************************)
\* What a call that never reaches the cache reports.
Untouched(cache, result) ==
    [result |-> result, cache |-> cache, calls |-> 0, touched |-> FALSE,
     logged |-> FALSE, rejected |-> FALSE, key |-> "", calendar |-> Null]

\* getLiturgicalDay that looks the day up under the UTC date of `date`
getLiturgicalDayUTCKey(cache, date, diocese, offset, eng) ==
    IF ~isValidDiocese(diocese) THEN Untouched(cache, Null)
    ELSE LET year    == getFullYear(date, offset)
             country == dioceseToCountry(diocese)
         IN  CHOOSE out \in
                 { [result   |-> IF ~got.threw /\ dateStr \in DOMAIN got.calendar
                                 THEN toLiturgicalDayResponse(got.calendar[dateStr])
                                 ELSE Null,
                    cache    |-> got.cache,
                    calls    |-> got.calls,
                    touched  |-> TRUE,
                    logged   |-> got.threw,
                    rejected |-> FALSE,
                    key      |-> CacheKey(year, country),
                    calendar |-> got.calendar]
                   : got \in {getCalendar(cache, year, country, eng)},
                     dateStr \in {formatDate(date, 0)} } : TRUE

\* getLiturgicalDay whose catch block logs the fault and throws it again
getLiturgicalDayRethrows(cache, date, diocese, offset, eng) ==
    IF ~isValidDiocese(diocese) THEN Untouched(cache, Null)
    ELSE LET year    == getFullYear(date, offset)
             country == dioceseToCountry(diocese)
         IN  CHOOSE out \in
                 { [result   |-> IF ~got.threw /\ dateStr \in DOMAIN got.calendar
                                 THEN toLiturgicalDayResponse(got.calendar[dateStr])
                                 ELSE Null,
                    cache    |-> got.cache,
                    calls    |-> got.calls,
                    touched  |-> TRUE,
                    logged   |-> got.threw,
                    rejected |-> got.threw,
                    key      |-> CacheKey(year, country),
                    calendar |-> got.calendar]
                   : got \in {getCalendar(cache, year, country, eng)},
                     dateStr \in {formatDate(date, offset)} } : TRUE

\* getLiturgicalDay(date, diocese) on cache `cache`, host offset `offset` and
\* engine behaviour `eng`: the value the promise resolves to, the cache left
\* behind, the engine invocations made, whether the cache was consulted,
\* whether console.error was called, whether the promise is rejected, and the
\* cache key and map used.
getLiturgicalDay(cache, date, diocese, offset, eng) ==
    IF ~isValidDiocese(diocese) THEN Untouched(cache, Null)
    ELSE LET year    == getFullYear(date, offset)
             country == dioceseToCountry(diocese)
         IN  CHOOSE out \in
                 { [result   |-> IF ~got.threw /\ dateStr \in DOMAIN got.calendar
                                 THEN toLiturgicalDayResponse(got.calendar[dateStr])
                                 ELSE Null,
                    cache    |-> got.cache,
                    calls    |-> got.calls,
                    touched  |-> TRUE,
                    logged   |-> got.threw,
                    rejected |-> FALSE,
                    key      |-> CacheKey(year, country),
                    calendar |-> got.calendar]
                   : got \in {getCalendar(cache, year, country, eng)},
                     dateStr \in {formatDate(date, offset)} } : TRUE

\* a.localeCompare(b) < 0 for the date strings the sort compares
CollationOrder == "-0123456789"

CharRank(c) ==
    IF \E i \in 1..Len(CollationOrder) : CharAt(CollationOrder, i) = c
    THEN CHOOSE i \in 1..Len(CollationOrder) : CharAt(CollationOrder, i) = c
    ELSE Len(CollationOrder) + 1

\* The first position from i on where a and b differ, or 0 if there is none
\* within the shorter of the two.
RECURSIVE FirstDifference(_, _, _)
FirstDifference(a, b, i) ==
    IF i > Len(a) \/ i > Len(b) THEN 0
    ELSE IF CharAt(a, i) # CharAt(b, i) THEN i
    ELSE FirstDifference(a, b, i + 1)

localeCompareLess(a, b) ==
    CHOOSE less \in
        { IF i = 0 THEN Len(a) < Len(b)
          ELSE CharRank(CharAt(a, i)) < CharRank(CharAt(b, i))
          : i \in {FirstDifference(a, b, 1)} } : TRUE

\* A sort with the comparator turned round: latest date first
SortByDateDescending(responses) ==
    CHOOSE sorted \in
        { [i \in 1..Cardinality(S) |-> CHOOSE r \in S : after[r] = i - 1]
          : after \in { [r \in S |->
                            Cardinality({q \in S : localeCompareLess(r.date, q.date)})]
                         : S \in {responses} },
            S \in {responses} } : TRUE

\* results.sort((a, b) => a.date.localeCompare(b.date)); the responses of one
\* map carry pairwise different dates, so the sorted order is unique: each
\* response goes to the place counted by the responses dated before it.
SortByDate(responses) ==
    CHOOSE sorted \in
        { [i \in 1..Cardinality(S) |-> CHOOSE r \in S : before[r] = i - 1]
          : before \in { [r \in S |->
                            Cardinality({q \in S : localeCompareLess(q.date, r.date)})]
                         : S \in {responses} },
            S \in {responses} } : TRUE

getCalendarForYear(cache, year, diocese, eng) ==
    IF ~isValidDiocese(diocese) THEN Untouched(cache, <<>>)
    ELSE LET country == dioceseToCountry(diocese)
         IN  CHOOSE out \in
                 { [result   |-> IF got.threw THEN <<>>
                                 ELSE SortByDate({toLiturgicalDayResponse(got.calendar[k]) :
                                                     k \in DOMAIN got.calendar}),
                    cache    |-> got.cache,
                    calls    |-> got.calls,
                    touched  |-> TRUE,
                    logged   |-> got.threw,
                    rejected |-> FALSE,
                    key      |-> CacheKey(year, country),
                    calendar |-> got.calendar]
                   : got \in {getCalendar(cache, year, country, eng)} } : TRUE

(***************************************************************************)
(* Inputs of the resolver                                                  *)
(***************************************************************************)
\* Host time zones: UTC offsets in hours.
HostOffsets == {-5, 0, 2}

\* Date objects handed to getLiturgicalDay.
DateInputs == { DateUTC(2026, 11, 25), DateUTC(2026, 0, 1), DateUTC(2026, 3, 23) }

DioceseInputs == {"united-states", "england", "mexico"}

YearArgInputs == {2026}

\* The instants new Date() may return.
NowInputs == { DateUTC(2026, 11, 24).time + 22, DateUTC(2026, 11, 31).time + 23 }

(***************************************************************************)
(* Specification of the resolver API: getLiturgicalDay, getToday,          *)
(* getCalendarForYear and clearCalendarCache called one after another.     *)
(***************************************************************************)
NoTrack ==
    [set |-> FALSE, time |-> 0, diocese |-> "", result |-> Null, logged |-> FALSE,
     invoked |-> EmptyMap]

\* The record of a step: the operation, its arguments (`time` is the Date's
\* time value, or the year for getCalendarForYear), what it returned, and
\* whether it repeats the call remembered in `tracked`, whether it looks up a
\* key that the clearCalendarCache just before it discarded, and whether it
\* looks up the key of the lookup just before it, which faulted.
Step(op, time, diocese, out) ==
    [op |-> op, time |-> time, diocese |-> diocese, result |-> out.result,
     calls |-> out.calls, touched |-> out.touched, logged |-> out.logged,
     key |-> out.key, calendar |-> out.calendar,
     repeat |-> (op = "getLiturgicalDay" /\ tracked.set /\ tracked.time = time
                 /\ tracked.diocese = diocese),
     refill |-> (out.touched /\ last.op = "clearCalendarCache"
                 /\ out.key \in last.result),
     retry  |-> (out.touched /\ last.touched /\ last.logged /\ last.key = out.key)]

QuietStep(op) ==
    [op |-> op, time |-> 0, diocese |-> "", result |-> Null, calls |-> 0,
     touched |-> FALSE, logged |-> FALSE, key |-> "", calendar |-> Null,
     repeat |-> FALSE, refill |-> FALSE, retry |-> FALSE]

DateIdle ==
    /\ dateString = ""
    /\ parsed = Null
    /\ formatted = ""
    /\ dpc = "start"

ServiceIdle ==
    /\ supportedDioceses = SUPPORTED_DIOCESES
    /\ calendarCache = EmptyMap
    /\ last = QuietStep("init")
    /\ tracked = NoTrack
    /\ pending = <<>>

Init ==
    /\ hostOffset \in HostOffsets
    /\ DateIdle
    /\ ServiceIdle

\* The ways the engine can behave in a lookup of (year, diocese): it behaves
\* at all only if the lookup invokes it.
Behaviours(year, diocese) ==
    IF /\ isValidDiocese(diocese)
       /\ CacheKey(year, dioceseToCountry(diocese)) \notin DOMAIN calendarCache
    THEN EngineBehaviours
    ELSE {[kind |-> "ok", at |-> 0]}

\* One getLiturgicalDay call; `track` says whether it may be remembered in
\* `tracked` for a later comparison.
Resolve(op, date, diocese, track) ==
    \E out \in {getLiturgicalDay(calendarCache, date, diocese, hostOffset, eng) :
                    eng \in Behaviours(getFullYear(date, hostOffset), diocese)} :
        /\ calendarCache' = out.cache
        /\ last' = Step(op, date.time, diocese, out)
        /\ tracked' \in
              {tracked} \cup
              (IF track
               THEN {[set |-> TRUE, time |-> date.time, diocese |-> diocese,
                      result |-> out.result, logged |-> out.logged,
                      invoked |-> tracked.invoked]}
               ELSE {})

GetLiturgicalDay ==
    \E date \in DateInputs, diocese \in DioceseInputs :
        /\ Resolve("getLiturgicalDay", date, diocese, FALSE)
        /\ UNCHANGED <<hostOffset, supportedDioceses, dateVars, pending>>

\* getToday(diocese) is getLiturgicalDay(new Date(), diocese).
GetToday ==
    \E t \in NowInputs, diocese \in DioceseInputs :
        /\ Resolve("getToday", MkDate(t), diocese, FALSE)
        /\ UNCHANGED <<hostOffset, supportedDioceses, dateVars, pending>>

GetCalendarForYear ==
    \E year \in YearArgInputs, diocese \in DioceseInputs :
        \E out \in {getCalendarForYear(calendarCache, year, diocese, eng) :
                        eng \in Behaviours(year, diocese)} :
            /\ calendarCache' = out.cache
            /\ last' = Step("getCalendarForYear", year, diocese, out)
            /\ UNCHANGED <<hostOffset, supportedDioceses, dateVars, tracked, pending>>

\* A clear that reports the keys but drops none
ClearCalendarCacheKeepsEntries ==
    /\ calendarCache' = calendarCache
    /\ last' = [QuietStep("clearCalendarCache") EXCEPT !.result = DOMAIN calendarCache]
    /\ tracked' = NoTrack
    /\ UNCHANGED <<hostOffset, supportedDioceses, dateVars, pending>>

\* calendarCache.clear()
ClearCalendarCache ==
    /\ calendarCache' = EmptyMap
    /\ last' = [QuietStep("clearCalendarCache") EXCEPT !.result = DOMAIN calendarCache]
    /\ tracked' = NoTrack
    /\ UNCHANGED <<hostOffset, supportedDioceses, dateVars, pending>>

Next ==
    \/ GetLiturgicalDay
    \/ GetToday
    \/ GetCalendarForYear
    \/ ClearCalendarCache

Spec == Init /\ [][Next]_vars

(***************************************************************************)
(* The same API with one earlier resolution kept in `tracked`, so that a   *)
(* later call with the same arguments can be compared with it.             *)
(***************************************************************************)
GetLiturgicalDayTracked ==
    \E date \in DateInputs, diocese \in DioceseInputs :
        /\ Resolve("getLiturgicalDay", date, diocese, TRUE)
        /\ UNCHANGED <<hostOffset, supportedDioceses, dateVars, pending>>

NextTracked ==
    \/ GetLiturgicalDayTracked
    \/ GetToday
    \/ GetCalendarForYear
    \/ ClearCalendarCache

SpecTracked == Init /\ [][NextTracked]_vars

(***************************************************************************)
(* src/routes: the HTTP handlers.  A query parameter is absent (undefined) *)
(* or a string.  A handler runs up to its await in one step and leaves the *)
(* awaited value in `pending`; its continuation builds the response.       *)
(***************************************************************************)
Undefined == [kind |-> "undefined"]

Str(s) == [kind |-> "string", value |-> s]

\* JavaScript truthiness of a query parameter
Truthy(q) == q.kind = "string" /\ q.value # ""

RECURSIVE join(_, _)
join(list, sep) ==
    IF Len(list) = 0 THEN ""
    ELSE IF Len(list) = 1 THEN list[1]
    ELSE list[1] \o sep \o join(Tail(list), sep)

ErrorResponse(error, message, status) ==
    [error |-> error, message |-> message, status |-> status]

\* return c.json(body, status)
Reply(status, body, cache) ==
    [awaits |-> FALSE, status |-> status, body |-> body, cache |-> cache,
     calls |-> 0, touched |-> FALSE, logged |-> FALSE, rejected |-> FALSE,
     value |-> Null, key |-> ""]

\* await of a promise that getLiturgicalDay returned
Await(out) ==
    [awaits |-> TRUE, status |-> 0, body |-> Null, cache |-> out.cache,
     calls |-> out.calls, touched |-> out.touched, logged |-> out.logged,
     rejected |-> out.rejected, value |-> out.result, key |-> out.key]

\* A message that lists the engine's country names instead of the codes
InvalidDioceseMessageCountries(dioceseParam) ==
    "Invalid diocese '" \o dioceseParam.value \o "'. Supported dioceses: "
        \o join([i \in DOMAIN SUPPORTED_DIOCESES |->
                    dioceseToCountry(SUPPORTED_DIOCESES[i])], ", ")

InvalidDioceseMessage(dioceseParam) ==
    "Invalid diocese '" \o dioceseParam.value \o "'. Supported dioceses: "
        \o join(supportedDioceses, ", ")

\* A GET /date/:date handler that resolves the date before it validates
dateRouterGetResolveFirst(cache, dateParam, dioceseParam, offset, eng) ==
    LET diocese == IF Truthy(dioceseParam) /\ isValidDiocese(dioceseParam.value)
                   THEN dioceseParam.value ELSE DEFAULT_DIOCESE
        date == parseDateUnchecked(dateParam)
    IN  CHOOSE r \in
          { IF ~isValidDate(dateParam)
            THEN [Reply(400, ErrorResponse("INVALID_DATE",
                       "Invalid date format '" \o dateParam \o "'. Expected YYYY-MM-DD format.",
                       400), out.cache)
                    EXCEPT !.calls = out.calls, !.touched = out.touched, !.logged = out.logged]
            ELSE IF Truthy(dioceseParam) /\ ~isValidDiocese(dioceseParam.value)
            THEN [Reply(400, ErrorResponse("INVALID_DIOCESE",
                       InvalidDioceseMessage(dioceseParam), 400), out.cache)
                    EXCEPT !.calls = out.calls, !.touched = out.touched, !.logged = out.logged]
            ELSE Await(out)
            : out \in { IF date = Null THEN Untouched(cache, Null)
                        ELSE getLiturgicalDay(cache, date, diocese, offset, eng) } } : TRUE

\* A GET /date/:date handler that validates every diocese parameter that is
\* present, the empty string included
dateRouterGetValidatesEmpty(cache, dateParam, dioceseParam, offset, eng) ==
    IF ~isValidDate(dateParam)
    THEN Reply(400, ErrorResponse("INVALID_DATE",
               "Invalid date format '" \o dateParam \o "'. Expected YYYY-MM-DD format.",
               400), cache)
    ELSE LET diocese == IF Truthy(dioceseParam) THEN dioceseParam.value
                        ELSE DEFAULT_DIOCESE
         IN  IF dioceseParam.kind = "string" /\ ~isValidDiocese(dioceseParam.value)
             THEN Reply(400, ErrorResponse("INVALID_DIOCESE",
                        InvalidDioceseMessage(dioceseParam), 400), cache)
             ELSE IF parseDate(dateParam) = Null
             THEN Reply(400, ErrorResponse("INVALID_DATE",
                        "Invalid date '" \o dateParam \o "'.", 400), cache)
             ELSE CHOOSE r \in
                      { Await(liturgicalDay) : liturgicalDay \in
                          {getLiturgicalDay(cache, parseDate(dateParam), diocese,
                                            offset, eng)} } : TRUE

\* A GET /date/:date handler that validates the diocese before the date
dateRouterGetDioceseFirst(cache, dateParam, dioceseParam, offset, eng) ==
    LET diocese == IF Truthy(dioceseParam) THEN dioceseParam.value ELSE DEFAULT_DIOCESE
    IN  IF Truthy(dioceseParam) /\ ~isValidDiocese(dioceseParam.value)
        THEN Reply(400, ErrorResponse("INVALID_DIOCESE",
                   InvalidDioceseMessage(dioceseParam), 400), cache)
        ELSE IF ~isValidDate(dateParam)
        THEN Reply(400, ErrorResponse("INVALID_DATE",
                   "Invalid date format '" \o dateParam \o "'. Expected YYYY-MM-DD format.",
                   400), cache)
        ELSE IF parseDate(dateParam) = Null
        THEN Reply(400, ErrorResponse("INVALID_DATE",
                   "Invalid date '" \o dateParam \o "'.", 400), cache)
        ELSE CHOOSE r \in
                 { Await(liturgicalDay) : liturgicalDay \in
                     {getLiturgicalDay(cache, parseDate(dateParam), diocese,
                                       offset, eng)} } : TRUE

\* GET /date/:date up to its await
dateRouterGet(cache, dateParam, dioceseParam, offset, eng) ==
    IF ~isValidDate(dateParam)
    THEN Reply(400, ErrorResponse("INVALID_DATE",
               "Invalid date format '" \o dateParam \o "'. Expected YYYY-MM-DD format.",
               400), cache)
    ELSE LET diocese == IF Truthy(dioceseParam) THEN dioceseParam.value
                        ELSE DEFAULT_DIOCESE
         IN  IF Truthy(dioceseParam) /\ ~isValidDiocese(dioceseParam.value)
             THEN Reply(400, ErrorResponse("INVALID_DIOCESE",
                        InvalidDioceseMessage(dioceseParam), 400), cache)
             ELSE IF parseDate(dateParam) = Null
             THEN Reply(400, ErrorResponse("INVALID_DATE",
                        "Invalid date '" \o dateParam \o "'.", 400), cache)
             ELSE CHOOSE r \in
                      { Await(liturgicalDay) : liturgicalDay \in
                          {getLiturgicalDay(cache, parseDate(dateParam), diocese,
                                            offset, eng)} } : TRUE

\* A continuation of GET /date/:date without the test for null
dateRouterGetResumeNoNullTest(dateParam, promise) ==
    IF promise.rejected
    THEN Reply(500, ErrorResponse("INTERNAL_ERROR",
               "An error occurred while retrieving liturgical data", 500), EmptyMap)
    ELSE Reply(200, promise.value, EmptyMap)

InternalError ==
    ErrorResponse("INTERNAL_ERROR",
                  "An error occurred while retrieving liturgical data", 500)

\* GET /date/:date after its await: `promise` is the settled promise, rejected
\* or fulfilled with a value
dateRouterGetResume(dateParam, promise) ==
    IF promise.rejected THEN Reply(500, InternalError, EmptyMap)
    ELSE IF promise.value = Null
    THEN Reply(404, ErrorResponse("NOT_FOUND",
               "No liturgical data found for date '" \o dateParam \o "'", 404), EmptyMap)
    ELSE Reply(200, promise.value, EmptyMap)

\* GET /today up to its await; `now` is the time new Date() reads in getToday
todayRouterGet(cache, dioceseParam, now, offset, eng) ==
    LET diocese == IF Truthy(dioceseParam) THEN dioceseParam.value ELSE DEFAULT_DIOCESE
    IN  IF Truthy(dioceseParam) /\ ~isValidDiocese(dioceseParam.value)
        THEN Reply(400, ErrorResponse("INVALID_DIOCESE",
                   InvalidDioceseMessage(dioceseParam), 400), cache)
        ELSE CHOOSE r \in
                 { Await(liturgicalDay) : liturgicalDay \in
                     {getLiturgicalDay(cache, MkDate(now), diocese, offset, eng)} } : TRUE

\* GET /today after its await
todayRouterGetResume(promise) ==
    IF promise.rejected THEN Reply(500, InternalError, EmptyMap)
    ELSE IF promise.value = Null
    THEN Reply(404, ErrorResponse("NOT_FOUND",
               "No liturgical data found for today", 404), EmptyMap)
    ELSE Reply(200, promise.value, EmptyMap)

(***************************************************************************)
(* Specification of the HTTP routes: requests arrive one after another and *)
(* each handler runs to its reply or to its await.  The awaited promise is *)
(* already settled, so the continuation is a microtask and runs before the *)
(* host delivers the next request.                                         *)
(***************************************************************************)
DateParams ==
    {"2026-12-25", "2026-01-01", "2026-06-15", "2026-02-30", "2026-2-15", "0050-01-01"}

QueryInputs == {Undefined, Str(""), Str("england"), Str("mexico")}

\* What a step of a handler did: the request, the reply (status 0 while the
\* handler awaits), the cache and engine interactions of the step, and
\* whether console.error was called while the request was served.
RouteStep(op, dateParam, dioceseParam, r) ==
    [op |-> op, dateParam |-> dateParam, dioceseParam |-> dioceseParam,
     awaits |-> r.awaits, status |-> r.status, body |-> r.body,
     calls |-> r.calls, touched |-> r.touched, logged |-> r.logged]

\* One request: the handler's run to its reply or its await.  The engine
\* behaves in one of EngineBehaviours when the run invokes it.
RouteRun(op, dateParam, dioceseParam, r) ==
    /\ pending = <<>>
    /\ calendarCache' = r.cache
    /\ pending' = IF r.awaits
                  THEN Append(pending, [op |-> op, dateParam |-> dateParam,
                                        dioceseParam |-> dioceseParam,
                                        logged |-> r.logged,
                                        promise |-> [rejected |-> r.rejected,
                                                     value |-> r.value]])
                  ELSE pending
    /\ last' = RouteStep(op, dateParam, dioceseParam, r)
    /\ UNCHANGED <<hostOffset, supportedDioceses, dateVars, tracked>>

DateRouteRequest ==
    \E dateParam \in DateParams, dioceseParam \in QueryInputs :
        \E r \in UNION { IF r0.calls = 0 THEN {r0}
                         ELSE {dateRouterGet(calendarCache, dateParam, dioceseParam,
                                             hostOffset, eng) : eng \in EngineBehaviours}
                         : r0 \in {dateRouterGet(calendarCache, dateParam, dioceseParam,
                                                 hostOffset, EngineOk)} } :
            RouteRun("GET /date/:date", dateParam, dioceseParam, r)

TodayRouteRequest ==
    \E now \in NowInputs, dioceseParam \in QueryInputs :
        \E r \in UNION { IF r0.calls = 0 THEN {r0}
                         ELSE {todayRouterGet(calendarCache, dioceseParam, now,
                                              hostOffset, eng) : eng \in EngineBehaviours}
                         : r0 \in {todayRouterGet(calendarCache, dioceseParam, now,
                                                  hostOffset, EngineOk)} } :
            RouteRun("GET /today", "", dioceseParam, r)

RouteResume ==
    /\ pending # <<>>
    /\ LET p == Head(pending)
           r == IF p.op = "GET /today" THEN todayRouterGetResume(p.promise)
                ELSE dateRouterGetResume(p.dateParam, p.promise)
       IN  last' = [RouteStep(p.op, p.dateParam, p.dioceseParam, r)
                       EXCEPT !.logged = p.logged]
    /\ pending' = Tail(pending)
    /\ UNCHANGED <<hostOffset, supportedDioceses, dateVars, calendarCache, tracked>>

RoutesNext ==
    \/ DateRouteRequest
    \/ TodayRouteRequest
    \/ RouteResume

SpecRoutes == Init /\ [][RoutesNext]_vars

(***************************************************************************)
(* Specification of concurrent requests: up to MaxInFlight handlers are    *)
(* suspended at their await at once, they resume in any order, and the     *)
(* cache may be cleared in between.  (The host runs a continuation before  *)
(* it delivers the next request; this specification allows every order.)   *)
(***************************************************************************)
MaxInFlight == 2

ConcurrentDateParams == {"2026-04-23"}

ConcurrentQueryInputs == {Undefined, Str("england")}

ConcurrentNowInputs == { DateUTC(2026, 11, 31).time + 23 }

\* One more engine invocation that returned, for cache key `key`.
Invoked(invoked, key) ==
    (key :> (IF key \in DOMAIN invoked THEN invoked[key] + 1 ELSE 1)) @@ invoked

\* A handler run whose cache write the following requests do not see
ConcurrentRunStoreLost(op, dateParam, dioceseParam, r) ==
    /\ Len(pending) < MaxInFlight
    /\ calendarCache' = calendarCache
    /\ pending' = IF r.awaits
                  THEN Append(pending, [op |-> op, dateParam |-> dateParam,
                                        dioceseParam |-> dioceseParam,
                                        logged |-> r.logged, key |-> r.key,
                                        promise |-> [rejected |-> r.rejected,
                                                     value |-> r.value]])
                  ELSE pending
    /\ last' = RouteStep(op, dateParam, dioceseParam, r)
    /\ tracked' = IF r.calls > 0 /\ ~r.logged
                  THEN [tracked EXCEPT !.invoked = Invoked(@, r.key)]
                  ELSE tracked
    /\ UNCHANGED <<hostOffset, supportedDioceses, dateVars>>

\* One request while others may be suspended: the handler's run to its reply
\* or its await, cache lookup and store included.
ConcurrentRun(op, dateParam, dioceseParam, r) ==
    /\ Len(pending) < MaxInFlight
    /\ calendarCache' = r.cache
    /\ pending' = IF r.awaits
                  THEN Append(pending, [op |-> op, dateParam |-> dateParam,
                                        dioceseParam |-> dioceseParam,
                                        logged |-> r.logged, key |-> r.key,
                                        promise |-> [rejected |-> r.rejected,
                                                     value |-> r.value]])
                  ELSE pending
    /\ last' = RouteStep(op, dateParam, dioceseParam, r)
    /\ tracked' = IF r.calls > 0 /\ ~r.logged
                  THEN [tracked EXCEPT !.invoked = Invoked(@, r.key)]
                  ELSE tracked
    /\ UNCHANGED <<hostOffset, supportedDioceses, dateVars>>

ConcurrentDateRequest ==
    \E dateParam \in ConcurrentDateParams, dioceseParam \in ConcurrentQueryInputs :
        \E r \in UNION { IF r0.calls = 0 THEN {r0}
                         ELSE {dateRouterGet(calendarCache, dateParam, dioceseParam,
                                             hostOffset, eng) : eng \in EngineBehaviours}
                         : r0 \in {dateRouterGet(calendarCache, dateParam, dioceseParam,
                                                 hostOffset, EngineOk)} } :
            ConcurrentRun("GET /date/:date", dateParam, dioceseParam, r)

ConcurrentTodayRequest ==
    \E now \in ConcurrentNowInputs, dioceseParam \in ConcurrentQueryInputs :
        \E r \in UNION { IF r0.calls = 0 THEN {r0}
                         ELSE {todayRouterGet(calendarCache, dioceseParam, now,
                                              hostOffset, eng) : eng \in EngineBehaviours}
                         : r0 \in {todayRouterGet(calendarCache, dioceseParam, now,
                                                  hostOffset, EngineOk)} } :
            ConcurrentRun("GET /today", "", dioceseParam, r)

\* Any suspended handler resumes.
ConcurrentResume ==
    \E i \in DOMAIN pending :
        /\ LET p == pending[i]
               r == IF p.op = "GET /today" THEN todayRouterGetResume(p.promise)
                    ELSE dateRouterGetResume(p.dateParam, p.promise)
           IN  last' = [RouteStep(p.op, p.dateParam, p.dioceseParam, r)
                           EXCEPT !.logged = p.logged]
        /\ pending' = SubSeq(pending, 1, i - 1) \o SubSeq(pending, i + 1, Len(pending))
        /\ UNCHANGED <<hostOffset, supportedDioceses, dateVars, calendarCache, tracked>>

ConcurrentNext ==
    \/ ConcurrentDateRequest
    \/ ConcurrentTodayRequest
    \/ ConcurrentResume
    \/ ClearCalendarCache

SpecConcurrent == Init /\ [][ConcurrentNext]_vars

(***************************************************************************)
(* Specification of the pure functions of utils/calendar.ts, each applied  *)
(* to one argument.                                                        *)
(***************************************************************************)
CodeInputs ==
    {SUPPORTED_DIOCESES[i] : i \in DOMAIN SUPPORTED_DIOCESES}
        \cup {"United-States", "united_states", "", "invalid", "poland", "mexico",
              "ENGLAND", "england ", "unitedStates", "unknown",
              "constructor", "toString", "__proto__"}

TypeInputs ==
    {"SOLEMNITY", "FEAST", "OPT_MEMORIAL", "MEMORIAL", "FERIA", "COMMEMORATION",
     "", "solemnity", "Feast"}

ColorInputs ==
    {NoColor, OneColor("WHITE"), OneColor("Red"), ColorList(<<>>),
     ColorList(<<"RED">>), ColorList(<<"WHITE", "GOLD">>),
     ColorList(<<"GOLD", "WHITE", "ROSE">>), ColorList(<<"violet", "VIOLET">>)}

RawDayInputs ==
    {RomcalDay(moment, type, "someDay", "ADVENT", color) :
        moment \in {IsoMoment(2026, 12, 8), ObjectMoment(2026, 12, 8)},
        type \in TypeInputs, color \in ColorInputs}

UnitStep(op, arg, result) == [op |-> op, arg |-> arg, result |-> result]

IsValidDioceseCall ==
    \E code \in CodeInputs :
        /\ last' = UnitStep("isValidDiocese", code, isValidDiocese(code))
        /\ UNCHANGED <<hostOffset, supportedDioceses, dateVars, calendarCache,
                       tracked, pending>>

DioceseToCountryCall ==
    \E code \in CodeInputs :
        /\ last' = UnitStep("dioceseToCountry", code, dioceseToCountry(code))
        /\ UNCHANGED <<hostOffset, supportedDioceses, dateVars, calendarCache,
                       tracked, pending>>

ToLiturgicalDayResponseCall ==
    \E day \in RawDayInputs :
        /\ last' = UnitStep("toLiturgicalDayResponse", day, toLiturgicalDayResponse(day))
        /\ UNCHANGED <<hostOffset, supportedDioceses, dateVars, calendarCache,
                       tracked, pending>>

UnitsNext ==
    \/ IsValidDioceseCall
    \/ DioceseToCountryCall
    \/ ToLiturgicalDayResponseCall

SpecUnits == Init /\ [][UnitsNext]_vars

(***************************************************************************)
(* Specification of the cache key: two lookups, each of a year and a       *)
(* supported diocese, and the keys getCalendar builds for them.            *)
(***************************************************************************)
\* Years handed to getCalendar: date.getFullYear() of any Date, or the year
\* argument of getCalendarForYear.
KeyYearInputs == {-1, 1, 11, 2026, 2027}

KeyInit ==
    /\ hostOffset \in HostOffsets
    /\ DateIdle
    /\ supportedDioceses = SUPPORTED_DIOCESES
    /\ calendarCache = EmptyMap
    /\ \E year1 \in KeyYearInputs, year2 \in KeyYearInputs,
          i1 \in DOMAIN SUPPORTED_DIOCESES, i2 \in DOMAIN SUPPORTED_DIOCESES :
           last = UnitStep("lookups",
                           [year1 |-> year1, diocese1 |-> SUPPORTED_DIOCESES[i1],
                            year2 |-> year2, diocese2 |-> SUPPORTED_DIOCESES[i2]],
                           <<>>)
    /\ tracked = NoTrack
    /\ pending = <<>>

\* const country = dioceseToCountry(diocese); const cacheKey =
\* `${year}-${country}`, for both lookups
CacheKeyCall ==
    /\ last.op = "lookups"
    /\ last' = UnitStep("cacheKey", last.arg,
                        <<CacheKey(last.arg.year1, dioceseToCountry(last.arg.diocese1)),
                          CacheKey(last.arg.year2, dioceseToCountry(last.arg.diocese2))>>)
    /\ UNCHANGED <<hostOffset, supportedDioceses, dateVars, calendarCache,
                   tracked, pending>>

KeysNext == CacheKeyCall

SpecKeys == KeyInit /\ [][KeysNext]_vars

(***************************************************************************)
(* The whole system: the resolver API and the routes on one cache.  A      *)
(* suspended handler resumes before anything else runs.                    *)
(***************************************************************************)
SystemNext ==
    \/ pending = <<>> /\ Next
    \/ RoutesNext

SpecSystem == Init /\ [][SystemNext]_vars

(***************************************************************************)
(* Inputs of the date utilities                                            *)
(***************************************************************************)
YearInputs == {0, 50, 99, 100, 999, 1000, 1900, 2000, 2024, 2025, 2026, 9999}

MonthInputs == (0..13) \cup {99}

DayInputs == (0..32) \cup {99}

\* Strings of the exact shape DDDD-DD-DD, real dates and impossible ones.
WellFormedInputs ==
    { ComposeDateString(y, m, d) : y \in YearInputs, m \in MonthInputs, d \in DayInputs }

\* Strings that are not of the shape DDDD-DD-DD.
MalformedInputs ==
    { "", " ", "20260215", "15-02-2026", "02-15-2026", "2026-2-15", "2026-02-5",
      "not-a-date", " 2026-02-15 ", " 2026-02-15", "2026-02-15 ", "2026/02/15",
      "2026.02.15", "2026_02_15", "2026-02-15T", "02026-02-15", "2026-002-15",
      "2026-02-015", "202a-02-15", "2026-0b-15", "2026-02-1c", "2026-02--1",
      "2026--2-15", "-026-02-15", "2026-02-15-2026-02-15", "226-02-15" }

DateStringInputs == WellFormedInputs \cup MalformedInputs

(***************************************************************************)
(* Specification of the date utilities: pick a host zone and a string,     *)
(* parse it, format the result.                                            *)
(***************************************************************************)
DateInit ==
    /\ hostOffset \in HostOffsets
    /\ dateString \in DateStringInputs
    /\ parsed = Null
    /\ formatted = ""
    /\ dpc = "start"
    /\ supportedDioceses = SUPPORTED_DIOCESES
    /\ calendarCache = EmptyMap
    /\ last = QuietStep("init")
    /\ tracked = NoTrack
    /\ pending = <<>>

DateParse ==
    /\ dpc = "start"
    /\ parsed' = parseDate(dateString)
    /\ dpc' = "parsed"
    /\ UNCHANGED <<hostOffset, supportedDioceses, dateString, formatted, serviceVars>>

DateFormat ==
    /\ dpc = "parsed"
    /\ parsed # Null
    /\ formatted' = formatDate(parsed, hostOffset)
    /\ dpc' = "formatted"
    /\ UNCHANGED <<hostOffset, supportedDioceses, dateString, parsed, serviceVars>>

DateNext == DateParse \/ DateFormat

SpecDate == DateInit /\ [][DateNext]_vars

(***************************************************************************)
(* Specification of the round trip that starts from a Date: a Date built   *)
(* with Date.UTC at midnight is formatted, the string is parsed, and the   *)
(* parsed Date is formatted again.  `last` keeps the first Date and counts *)
(* the round trips made.                                                   *)
(***************************************************************************)
MaxRoundTrips == 2

\* new Date(Date.UTC(y, m, d))
MidnightInputs ==
    { DateUTC(y, m, d) : y \in {999, 2024, 2026, 9999}, m \in {0, 1, 11},
                         d \in {1, 28, 31} }

RoundTripInit ==
    /\ hostOffset \in HostOffsets
    /\ dateString = ""
    /\ parsed \in MidnightInputs
    /\ formatted = ""
    /\ dpc = "date"
    /\ supportedDioceses = SUPPORTED_DIOCESES
    /\ calendarCache = EmptyMap
    /\ last = [op |-> "roundTrip", original |-> parsed, trips |-> 0]
    /\ tracked = NoTrack
    /\ pending = <<>>

\* const formatted = formatDate(current)
RoundTripFormat ==
    /\ dpc = "date"
    /\ last.trips < MaxRoundTrips
    /\ formatted' = formatDate(parsed, hostOffset)
    /\ dpc' = "string"
    /\ UNCHANGED <<hostOffset, supportedDioceses, dateString, parsed, serviceVars>>

\* const parsed = parseDate(formatted); current = parsed
RoundTripParse ==
    /\ dpc = "string"
    /\ parsed' = parseDate(formatted)
    /\ dpc' = IF parsed' = Null THEN "null" ELSE "date"
    /\ last' = [last EXCEPT !.trips = @ + 1]
    /\ UNCHANGED <<hostOffset, supportedDioceses, dateString, formatted,
                   calendarCache, tracked, pending>>

RoundTripNext == RoundTripFormat \/ RoundTripParse

SpecRoundTrip == RoundTripInit /\ [][RoundTripNext]_vars

(***************************************************************************)
(* Specification of the resolver over Dates of several years and instants  *)
(* next to a year's end, for the relation between the cache key and the    *)
(* date string of one getLiturgicalDay call.                               *)
(***************************************************************************)
YearEdgeInputs ==
    { DateUTC(999, 5, 15), DateUTC(1000, 0, 1), DateUTC(2026, 0, 1),
      MkDate(DateUTC(2026, 11, 31).time + 23) }

GetLiturgicalDayYearEdge ==
    \E date \in YearEdgeInputs, diocese \in {"united-states", "england"} :
        /\ Resolve("getLiturgicalDay", date, diocese, FALSE)
        /\ UNCHANGED <<hostOffset, supportedDioceses, dateVars, pending>>

YearEdgeNext == GetLiturgicalDayYearEdge \/ ClearCalendarCache

SpecYearEdge == Init /\ [][YearEdgeNext]_vars

(***************************************************************************)
(* The Gregorian calendar as the claims state it                           *)
(***************************************************************************)
IsLeapYear(y) == (y % 4 = 0 /\ y % 100 # 0) \/ y % 400 = 0

GregorianMonthLength(y, m) ==
    IF m = 2 THEN (IF IsLeapYear(y) THEN 29 ELSE 28)
    ELSE IF m \in {4, 6, 9, 11} THEN 30 ELSE 31

IsRealDate(y, m, d) ==
    /\ m \in 1..12
    /\ d >= 1
    /\ d <= GregorianMonthLength(y, m)

YearField(s)  == parseInt(SubSeq(s, 1, 4))
MonthField(s) == parseInt(SubSeq(s, 6, 7))
DayField(s)   == parseInt(SubSeq(s, 9, 10))

DenotesRealDate(s) ==
    s \in WellFormedInputs /\ IsRealDate(YearField(s), MonthField(s), DayField(s))

\* C1: every accepted string round-trips through parseDate and formatDate,
\* whatever the host time zone: formatDate(parseDate(s)) = s.
C1_FormatParseRoundTrip ==
    dpc = "formatted" => formatted = dateString

\* C2: every DDDD-DD-DD string denoting a real Gregorian date (years 0000-9999)
\* is accepted, and the parsed Date carries the same UTC year, month and day.
C2_RealDatesAccepted ==
    (dpc # "start" /\ DenotesRealDate(dateString)) =>
        /\ parsed # Null
        /\ isValidDate(dateString)
        /\ getUTCFullYear(parsed) = YearField(dateString)
        /\ getUTCMonth(parsed) + 1 = MonthField(dateString)
        /\ getUTCDate(parsed) = DayField(dateString)

\* C3: a string that is not of the shape DDDD-DD-DD, or is of that shape but
\* denotes an impossible calendar date, is rejected: parseDate returns null and
\* isValidDate is false.
C3_InvalidRejected ==
    (dpc # "start" /\ ~DenotesRealDate(dateString)) =>
        (parsed = Null /\ ~isValidDate(dateString))

C3_Witness ==
    /\ dpc = "parsed"
    /\ dateString = "2025-02-29"
    /\ ~DenotesRealDate(dateString)
    /\ parsed = Null

(***************************************************************************)
(* Claims about the calendar cache and the resolver                        *)
(***************************************************************************)
SupportedCodes == {"united-states", "england", "italy", "france", "spain", "germany"}

\* The date-keyed mapping of everything the engine produces for a cache key.
ExpectedDateMap(year, country) ==
    [d \in {MomentDate(EngineCalendar(year, country)[i]) :
                i \in DOMAIN EngineCalendar(year, country)} |->
        EngineCalendar(year, country)[
            CHOOSE i \in DOMAIN EngineCalendar(year, country) :
                MomentDate(EngineCalendar(year, country)[i]) = d]]

ExpectedByKey ==
    [k \in {CacheKey(y, c) : y \in EngineYears, c \in EngineCountries} |->
        LET yc == CHOOSE yc \in EngineYears \X EngineCountries :
                      CacheKey(yc[1], yc[2]) = k
        IN  ExpectedDateMap(yc[1], yc[2])]

IsLookup(step) == step.touched

C6_LookupAsStated ==
    [][IsLookup(last') =>
           IF last'.key \in DOMAIN calendarCache
           THEN /\ last'.calls = 0
                /\ last'.calendar = calendarCache[last'.key]
                /\ calendarCache' = calendarCache
           ELSE /\ last'.calls = 1
                /\ calendarCache' = MapSet(calendarCache, last'.key,
                                           ExpectedByKey[last'.key])]_vars

\* C6 amended: on a miss the engine is invoked exactly once and, unless that
\* invocation or the building of the map faults, the resulting mapping is
\* stored under the key (on a fault the cache is left as it was); on a hit the
\* engine is not invoked and the stored mapping is returned.
C6_LookupHitMiss ==
    [][IsLookup(last') =>
           IF last'.key \in DOMAIN calendarCache
           THEN /\ last'.calls = 0
                /\ last'.calendar = calendarCache[last'.key]
                /\ calendarCache' = calendarCache
           ELSE /\ last'.calls = 1
                /\ IF last'.logged
                   THEN calendarCache' = calendarCache
                   ELSE /\ last'.calendar = ExpectedByKey[last'.key]
                        /\ calendarCache' = MapSet(calendarCache, last'.key,
                                                   ExpectedByKey[last'.key])]_vars

C6_Witness ==
    /\ IsLookup(last)
    /\ last.calls = 0
    /\ last.key \in DOMAIN calendarCache
    /\ Cardinality(DOMAIN calendarCache) >= 2

\* C7 as stated: clearCalendarCache discards every entry (also on an empty
\* cache), and the next resolution of a key it discarded invokes the engine
\* exactly once and puts the key back.
C7_ClearAsStated ==
    [][/\ last'.op = "clearCalendarCache" =>
              (calendarCache' = EmptyMap /\ last'.result = DOMAIN calendarCache)
       /\ last'.refill =>
              (last'.calls = 1 /\ last'.key \in DOMAIN calendarCache')]_vars

\* C7 amended: the same, except that the key is put back only if the fresh
\* engine invocation does not fault.
C7_ClearThenFreshInvocation ==
    [][/\ last'.op = "clearCalendarCache" =>
              (calendarCache' = EmptyMap /\ last'.result = DOMAIN calendarCache)
       /\ last'.refill =>
              /\ last'.calls = 1
              /\ ~last'.logged => last'.key \in DOMAIN calendarCache']_vars

C7_Witness ==
    /\ last.refill
    /\ last.calls = 1
    /\ ~last.logged
    /\ DOMAIN calendarCache = {last.key}
    /\ last.result # Null

\* C8: every key present in the cache maps to the complete mapping of the
\* engine's records for that year and country, also after a fault.
C8_CacheEntriesComplete ==
    \A k \in DOMAIN calendarCache : calendarCache[k] = ExpectedByKey[k]

C8_Witness ==
    /\ last.logged
    /\ last.calls = 1
    /\ calendarCache # EmptyMap
    /\ last.key \notin DOMAIN calendarCache

\* C9: getLiturgicalDay, getToday and getCalendarForYear called with an
\* unsupported diocese return null / [] without invoking the engine and
\* without reading or changing the cache.
C9_UnsupportedDioceseRejected ==
    [][(last'.op \in {"getLiturgicalDay", "getToday", "getCalendarForYear"}
            /\ last'.diocese \notin SupportedCodes) =>
           /\ last'.result = (IF last'.op = "getCalendarForYear" THEN <<>> ELSE Null)
           /\ last'.calls = 0
           /\ ~last'.touched
           /\ calendarCache' = calendarCache]_vars

C9_Witness ==
    /\ last.op = "getToday"
    /\ last.diocese = "mexico"
    /\ last.result = Null
    /\ calendarCache # EmptyMap

(***************************************************************************)
(* Claims about the routes                                                 *)
(***************************************************************************)
RouteOps == {"GET /date/:date", "GET /today"}

IsReply(step) == step.op \in RouteOps /\ ~step.awaits

\* A request fails validation: its date string denotes no real date, or its
\* diocese parameter is a non-empty string outside the supported set.
FailsValidation(step) ==
    \/ step.op = "GET /date/:date" /\ ~DenotesRealDate(step.dateParam)
    \/ /\ step.dioceseParam.kind = "string"
       /\ step.dioceseParam.value # ""
       /\ step.dioceseParam.value \notin SupportedCodes

\* C4: every 200 response of GET /date/s carries s in its date field, for
\* every host zone.
C4_ResponseDateEqualsRequest ==
    (IsReply(last) /\ last.op = "GET /date/:date" /\ last.status = 200)
        => last.body.date = last.dateParam

\* C10: a request that fails validation is answered 400 and never awaits a
\* resolution, and a step that answers 400 reads no cache entry, writes none
\* and invokes the engine zero times.
C10_ValidationBeforeCacheAndEngine ==
    [][/\ (last'.op \in RouteOps /\ FailsValidation(last')) => last'.status = 400
       /\ (IsReply(last') /\ last'.status = 400) =>
              /\ last'.calls = 0
              /\ ~last'.touched
              /\ calendarCache' = calendarCache]_vars

C10_Witness ==
    /\ IsReply(last)
    /\ last.status = 400
    /\ last.body.error = "INVALID_DIOCESE"
    /\ last.dateParam = "2026-12-25"
    /\ calendarCache # EmptyMap

\* The body the routes send when the resolver found no entry for the day.
NoDataBody(step) ==
    [error   |-> "NOT_FOUND",
     message |-> IF step.op = "GET /today" THEN "No liturgical data found for today"
                 ELSE "No liturgical data found for date '" \o step.dateParam \o "'",
     status  |-> 404]

\* C11: a fault of the engine call or of the processing of its records does
\* not leave getLiturgicalDay: the promise is fulfilled with null, and the
\* route answers 404 NOT_FOUND with the body of the no-data outcome.
C11_EngineFaultReportedAsNotFound ==
    [][/\ (last'.op \in RouteOps /\ last'.awaits /\ last'.logged) =>
              (/\ pending' # <<>>
               /\ Head(pending').promise = [rejected |-> FALSE, value |-> Null])
       /\ (IsReply(last') /\ last'.logged) =>
              (last'.status = 404 /\ last'.body = NoDataBody(last'))]_vars

C11_Witness ==
    /\ IsReply(last)
    /\ last.logged
    /\ last.status = 404
    /\ last.op = "GET /date/:date"
    /\ last.dateParam = "2026-12-25"

\* C12: for a supported diocese getLiturgicalDay returns null exactly when
\* the engine faulted or the formatted date string is absent from the mapping
\* cached for the year; otherwise it returns the normalized form of the
\* record stored under that string.
C12_NullIffAbsentOrFault ==
    [][(last'.op \in {"getLiturgicalDay", "getToday"}
            /\ last'.diocese \in SupportedCodes) =>
           LET dateStr == formatDate(MkDate(last'.time), hostOffset)
           IN  IF last'.logged THEN last'.result = Null
               ELSE /\ last'.key \in DOMAIN calendarCache'
                    /\ IF dateStr \in DOMAIN calendarCache'[last'.key]
                       THEN /\ last'.result # Null
                            /\ last'.result =
                                   toLiturgicalDayResponse(calendarCache'[last'.key][dateStr])
                       ELSE last'.result = Null]_vars

C12_Witness ==
    /\ last.op = "getLiturgicalDay"
    /\ last.diocese = "united-states"
    /\ last.result = Null
    /\ ~last.logged
    /\ last.key \in DOMAIN calendarCache
    /\ formatDate(MkDate(last.time), hostOffset) \notin DOMAIN calendarCache[last.key]

NamesUnsupportedDiocese(step) ==
    /\ step.dioceseParam.kind = "string"
    /\ step.dioceseParam.value # ""
    /\ step.dioceseParam.value \notin SupportedCodes

IsErrorReply(step, status, error) ==
    /\ ~step.awaits
    /\ step.status = status
    /\ step.body.error = error
    /\ step.body.status = status

\* C13: GET /date/:date answers 400 INVALID_DATE for a date string that fails
\* validation, 400 INVALID_DIOCESE for an unsupported diocese, 404 NOT_FOUND
\* when the resolution is null and 200 with the resolved response otherwise;
\* the status field of every error body is the HTTP status.
C13_DateRouteStatusMapping ==
    [][last'.op = "GET /date/:date" =>
           IF pending = <<>>
           THEN IF ~isValidDate(last'.dateParam)
                THEN IsErrorReply(last', 400, "INVALID_DATE")
                ELSE IF NamesUnsupportedDiocese(last')
                THEN IsErrorReply(last', 400, "INVALID_DIOCESE")
                ELSE last'.awaits
           ELSE IF Head(pending).promise.value = Null
                THEN IsErrorReply(last', 404, "NOT_FOUND")
                ELSE /\ ~last'.awaits
                     /\ last'.status = 200
                     /\ last'.body = Head(pending).promise.value]_vars

C13_Witness ==
    /\ IsReply(last)
    /\ last.op = "GET /date/:date"
    /\ last.status = 200
    /\ last.body.isSolemnity
    /\ last.dioceseParam = Str("england")

\* The message of the claim: the six codes in the order of their declaration.
SixCodesMessage(step) ==
    "Invalid diocese '" \o step.dioceseParam.value
        \o "'. Supported dioceses: united-states, england, italy, france, spain, germany"

\* C14 as stated: every request that names an unsupported diocese is answered
\* INVALID_DIOCESE with a message that lists exactly the six supported codes
\* in declaration order.
C14_UnsupportedDioceseAsStated ==
    [][(last'.op \in RouteOps /\ pending = <<>> /\ NamesUnsupportedDiocese(last')) =>
           /\ IsErrorReply(last', 400, "INVALID_DIOCESE")
           /\ last'.body.message = SixCodesMessage(last')]_vars

\* C14 amended: the same for every request whose date string, if it has one,
\* passes validation.
C14_UnsupportedDioceseMessage ==
    [][(/\ last'.op \in RouteOps
        /\ pending = <<>>
        /\ NamesUnsupportedDiocese(last')
        /\ last'.op = "GET /date/:date" => isValidDate(last'.dateParam)) =>
           /\ IsErrorReply(last', 400, "INVALID_DIOCESE")
           /\ last'.body.message = SixCodesMessage(last')]_vars

C14_Witness ==
    /\ IsReply(last)
    /\ last.op = "GET /today"
    /\ last.dioceseParam = Str("mexico")
    /\ last.body.error = "INVALID_DIOCESE"
    /\ last.body.message = SixCodesMessage(last)

\* C15: the supported-diocese list is, in every state reached by resolutions,
\* year listings, clears and route requests, the six codes in the order of
\* their declaration.
C15_SupportedListStable ==
    /\ Len(supportedDioceses) = 6
    /\ supportedDioceses =
           <<"united-states", "england", "italy", "france", "spain", "germany">>

C15_Witness ==
    /\ IsReply(last)
    /\ last.status = 400
    /\ last.body.error = "INVALID_DIOCESE"
    /\ calendarCache # EmptyMap
    /\ C15_SupportedListStable

(***************************************************************************)
(* Claims about the registry and the normalizer                            *)
(***************************************************************************)
\* C16: isValidDiocese(code) is true exactly for the six supported codes,
\* compared as exact strings; other spellings and the empty string are
\* rejected.
C16_ValidIffSupportedCode ==
    last.op = "isValidDiocese" => (last.result <=> last.arg \in SupportedCodes)

C16_Witness ==
    /\ last.op = "isValidDiocese"
    /\ last.arg = "United-States"
    /\ last.result = FALSE

\* The engine identifier the claim gives for each supported code.
EngineIdentifier(code) == IF code = "united-states" THEN "unitedStates" ELSE code

\* C17: dioceseToCountry maps 'united-states' to 'unitedStates' and each
\* other supported code to itself, and returns every code outside the
\* supported set unchanged.
C17_CountryOrInputUnchanged ==
    last.op = "dioceseToCountry" =>
        IF last.arg \in SupportedCodes
        THEN last.result = EngineIdentifier(last.arg)
        ELSE last.result = last.arg

RankFlags(response) ==
    {f \in {"isSolemnity", "isFeast", "isOptional"} : response[f]}

\* C18: the normalized rank is the raw type ('' when absent); isSolemnity,
\* isFeast and isOptional hold exactly for the ranks SOLEMNITY, FEAST and
\* OPT_MEMORIAL; at most one flag is true and for any other rank none is.
C18_RankFlags ==
    last.op = "toLiturgicalDayResponse" =>
        /\ last.result.rank = last.arg.type
        /\ last.result.isSolemnity <=> (last.result.rank = "SOLEMNITY")
        /\ last.result.isFeast <=> (last.result.rank = "FEAST")
        /\ last.result.isOptional <=> (last.result.rank = "OPT_MEMORIAL")
        /\ Cardinality(RankFlags(last.result)) <= 1
        /\ last.result.rank \notin {"SOLEMNITY", "FEAST", "OPT_MEMORIAL"}
               => RankFlags(last.result) = {}

C18_Witness ==
    /\ last.op = "toLiturgicalDayResponse"
    /\ last.arg.type = "solemnity"
    /\ last.result.rank = "solemnity"
    /\ RankFlags(last.result) = {}

\* The lower-case spelling of each colour identifier the engine is given.
LowerCased ==
    [k \in {"WHITE", "Red", "RED", "GOLD", "ROSE", "violet", "VIOLET"} |->
        CASE k = "WHITE" -> "white"
          [] k \in {"Red", "RED"} -> "red"
          [] k = "GOLD" -> "gold"
          [] k = "ROSE" -> "rose"
          [] OTHER -> "violet"]

\* C19: the colour list is empty when the record has no colour, has one
\* element (the lowercased identifier) for a single colour, and for a list
\* has the lowercased identifier of every element, in the engine's order and
\* with the raw list's length.
C19_ColorList ==
    last.op = "toLiturgicalDayResponse" =>
        LET raw == last.arg.liturgicalColor
            color == last.result.color
        IN  CASE raw.kind = "none" -> color = <<>>
              [] raw.kind = "one" ->
                     Len(color) = 1 /\ color[1] = LowerCased[raw.keys[1]]
              [] OTHER ->
                     /\ Len(color) = Len(raw.keys)
                     /\ \A i \in 1..Len(raw.keys) : color[i] = LowerCased[raw.keys[i]]

C19_Witness ==
    /\ last.op = "toLiturgicalDayResponse"
    /\ last.arg.liturgicalColor = ColorList(<<"GOLD", "WHITE", "ROSE">>)
    /\ last.result.color = <<"gold", "white", "rose">>

\* C20: when getLiturgicalDay succeeds for the same Date and two different
\* supported dioceses, the two responses carry the same date field.
C20_SameDateAcrossDioceses ==
    [][(/\ last'.op = "getLiturgicalDay"
        /\ tracked.set
        /\ tracked.time = last'.time
        /\ tracked.diocese # last'.diocese
        /\ {tracked.diocese, last'.diocese} \subseteq SupportedCodes
        /\ tracked.result # Null
        /\ last'.result # Null) =>
           last'.result.date = tracked.result.date]_vars

C20_Witness ==
    /\ last.op = "getLiturgicalDay"
    /\ tracked.set
    /\ tracked.time = last.time
    /\ tracked.diocese = "united-states"
    /\ last.diocese = "england"
    /\ tracked.result # Null
    /\ last.result # Null
    /\ last.result # tracked.result
    /\ last.result.date = tracked.result.date

(***************************************************************************)
(* Claims about the lifetime of cache entries                              *)
(***************************************************************************)
\* C22: no getLiturgicalDay, getToday or getCalendarForYear call removes a
\* cached key or replaces the mapping of a key already present; each such
\* call adds at most one key, so between clears the key set only grows.
C22_EntriesPersistUntilClear ==
    [][last'.op \in {"getLiturgicalDay", "getToday", "getCalendarForYear"} =>
           /\ \A k \in DOMAIN calendarCache :
                  k \in DOMAIN calendarCache' /\ calendarCache'[k] = calendarCache[k]
           /\ Cardinality(DOMAIN calendarCache' \ DOMAIN calendarCache) <= 1]_vars

C22_Witness ==
    /\ last.op = "getCalendarForYear"
    /\ last.calls = 1
    /\ last.key \in DOMAIN calendarCache
    /\ Cardinality(DOMAIN calendarCache) >= 3

\* C28: a lookup during which the engine faults leaves the cache exactly as
\* it was, with no entry for the key, and the next lookup of the same key
\* invokes the engine again.
C28_FaultNotCached ==
    [][/\ (IsLookup(last') /\ last'.logged) =>
              /\ last'.calls = 1
              /\ calendarCache' = calendarCache
              /\ last'.key \notin DOMAIN calendarCache'
       /\ last'.retry => last'.calls = 1]_vars

C28_Witness ==
    /\ last.retry
    /\ last.calls = 1
    /\ ~last.logged
    /\ last.result # Null
    /\ last.key \in DOMAIN calendarCache

\* The day a YYYY-MM-DD string names, as one number that grows with the date.
DateNumber(s) == YearField(s) * 10000 + MonthField(s) * 100 + DayField(s)

\* C25: getCalendarForYear returns the empty list for an unsupported diocese
\* or when the engine faults; otherwise it returns exactly one normalized
\* response per entry of the mapping cached for the year, in non-decreasing
\* date order, and a getLiturgicalDay or getToday call right after it for a
\* date of that year and the same diocese uses the same cache entry without
\* invoking the engine.
C25_YearListing ==
    [][/\ last'.op = "getCalendarForYear" =>
              IF last'.diocese \notin SupportedCodes \/ last'.logged
              THEN last'.result = <<>>
              ELSE /\ last'.key \in DOMAIN calendarCache'
                   /\ Len(last'.result) = Cardinality(DOMAIN calendarCache'[last'.key])
                   /\ {last'.result[i] : i \in 1..Len(last'.result)} =
                          {toLiturgicalDayResponse(calendarCache'[last'.key][d]) :
                              d \in DOMAIN calendarCache'[last'.key]}
                   /\ \A i \in 1..(Len(last'.result) - 1) :
                          DateNumber(last'.result[i].date)
                              <= DateNumber(last'.result[i + 1].date)
       /\ (/\ last.op = "getCalendarForYear"
           /\ last.touched
           /\ ~last.logged
           /\ last'.op \in {"getLiturgicalDay", "getToday"}
           /\ last'.diocese = last.diocese
           /\ getFullYear(MkDate(last'.time), hostOffset) = last.time) =>
              /\ last'.calls = 0
              /\ last'.key = last.key
              /\ last'.calendar = calendarCache[last.key]]_vars

C25_Witness ==
    /\ last.op = "getCalendarForYear"
    /\ last.diocese = "england"
    /\ Len(last.result) = 5
    /\ last.result[2].isFeast
    /\ last.result[5].isOptional
    /\ last.calls = 1

\* C23: the cache keys of two (year, supported diocese) pairs are equal
\* exactly when the years are equal and the dioceses are equal.
C23_KeysCollisionFree ==
    last.op = "cacheKey" =>
        ((last.result[1] = last.result[2]) <=>
             (last.arg.year1 = last.arg.year2 /\ last.arg.diocese1 = last.arg.diocese2))

C23_Witness ==
    /\ last.op = "cacheKey"
    /\ last.arg.year1 = 1
    /\ last.arg.year2 = 11
    /\ last.arg.diocese1 = "england"
    /\ last.arg.diocese2 = "united-states"
    /\ last.result = <<"1-england", "11-unitedStates">>

(***************************************************************************)
(* Claims about the order and the defaults of the route validation         *)
(***************************************************************************)
\* The step just taken is what a handler run `r` of the same request makes
\* of the state before it: the same reply or await, the same cache, the same
\* awaited promise.
SameOutcome(r) ==
    /\ last' = RouteStep(last'.op, last'.dateParam, last'.dioceseParam, r)
    /\ calendarCache' = r.cache
    /\ r.awaits => (/\ pending' # <<>>
                    /\ Head(pending').promise =
                           [rejected |-> r.rejected, value |-> r.value])

\* C24: a GET /today or GET /date/:date request whose diocese parameter is
\* missing or empty is never answered INVALID_DIOCESE, and its outcome is the
\* outcome of the same request with diocese=united-states.
C24_MissingDioceseIsDefault ==
    [][(last'.op \in RouteOps /\ pending = <<>> /\ ~Truthy(last'.dioceseParam)) =>
           /\ ~(IsReply(last') /\ last'.status = 400
                    /\ last'.body.error = "INVALID_DIOCESE")
           /\ IF last'.op = "GET /today"
              THEN \E now \in NowInputs, eng \in EngineBehaviours :
                       SameOutcome(todayRouterGet(calendarCache, Str("united-states"),
                                                  now, hostOffset, eng))
              ELSE \E eng \in EngineBehaviours :
                       SameOutcome(dateRouterGet(calendarCache, last'.dateParam,
                                                 Str("united-states"), hostOffset,
                                                 eng))]_vars

C24_Witness ==
    /\ IsReply(last)
    /\ last.op = "GET /date/:date"
    /\ last.dioceseParam = Str("")
    /\ last.dateParam = "2026-12-25"
    /\ last.status = 200
    /\ last.body.color = <<"white", "gold">>

\* The message of the handler's INVALID_DATE branch that follows parseDate.
SecondInvalidDateMessage(dateParam) == "Invalid date '" \o dateParam \o "'."

\* C30: GET /date/:date answers a request whose date is invalid and whose
\* diocese is unsupported with INVALID_DATE; isValidDate(s) holds exactly
\* when parseDate(s) is non-null, and no reply ever comes from the INVALID_DATE
\* branch that follows parseDate.
C30_DateCheckedBeforeDiocese ==
    [][last'.op = "GET /date/:date" =>
           /\ (/\ pending = <<>>
               /\ ~isValidDate(last'.dateParam)
               /\ NamesUnsupportedDiocese(last')) =>
                  IsErrorReply(last', 400, "INVALID_DATE")
           /\ isValidDate(last'.dateParam) <=> (parseDate(last'.dateParam) # Null)
           /\ ~(/\ IsReply(last')
                /\ last'.status = 400
                /\ last'.body.message = SecondInvalidDateMessage(last'.dateParam))]_vars

C30_Witness ==
    /\ IsReply(last)
    /\ last.op = "GET /date/:date"
    /\ last.dateParam = "2026-02-30"
    /\ last.dioceseParam = Str("mexico")
    /\ last.status = 400
    /\ last.body.error = "INVALID_DATE"
    /\ last.body.message # SecondInvalidDateMessage(last.dateParam)

(***************************************************************************)
(* Claims about Dates, their strings and the year of the cache key         *)
(***************************************************************************)
\* C26: a Date built at UTC midnight of a calendar day survives every number
\* of format/parse round trips on every host: the parsed Date is non-null and
\* has the UTC year, month and day of the first Date.
C26_DateRoundTrip ==
    (last.op = "roundTrip" /\ last.trips >= 1 /\ dpc # "string") =>
        /\ parsed # Null
        /\ getUTCFullYear(parsed) = getUTCFullYear(last.original)
        /\ getUTCMonth(parsed) = getUTCMonth(last.original)
        /\ getUTCDate(parsed) = getUTCDate(last.original)

\* C29: in every getLiturgicalDay call that reaches the cache, the year in the
\* cache key is the four-digit year prefix of the date string looked up.
C29_YearPrefixIsCacheYear ==
    (last.op = "getLiturgicalDay" /\ last.touched) =>
        last.key = SubSeq(formatDate(MkDate(last.time), hostOffset), 1, 4)
                       \o "-" \o dioceseToCountry(last.diocese)

(***************************************************************************)
(* Claims about concurrent requests                                        *)
(***************************************************************************)
\* The reply a request gets when it is served alone on an empty cache, the
\* engine behaving as `eng`.
RunAlone(op, dateParam, dioceseParam, now, eng) ==
    LET r == IF op = "GET /today"
             THEN todayRouterGet(EmptyMap, dioceseParam, now, hostOffset, eng)
             ELSE dateRouterGet(EmptyMap, dateParam, dioceseParam, hostOffset, eng)
        promise == [rejected |-> r.rejected, value |-> r.value]
        done == IF ~r.awaits THEN r
                ELSE IF op = "GET /today" THEN todayRouterGetResume(promise)
                ELSE dateRouterGetResume(dateParam, promise)
    IN  [status |-> done.status, body |-> done.body]

\* C21: whatever the order in which concurrent requests run and resume, every
\* key present in the cache maps to the date-keyed mapping of the engine's
\* output for it, and every reply is the reply the request gets when served
\* alone (with the engine faulting exactly if it faulted for the request).
C21_ConcurrentRequestsUncorrupted ==
    [][/\ \A k \in DOMAIN calendarCache' : calendarCache'[k] = ExpectedByKey[k]
       /\ IsReply(last') =>
              \E now \in ConcurrentNowInputs,
                 eng \in (IF last'.logged THEN EngineBehaviours \ {EngineOk}
                          ELSE {EngineOk}) :
                  [status |-> last'.status, body |-> last'.body] =
                      RunAlone(last'.op, last'.dateParam, last'.dioceseParam,
                               now, eng)]_vars

C21_Witness ==
    /\ IsReply(last)
    /\ last.status = 200
    /\ last.dioceseParam = Str("england")
    /\ last.dateParam = "2026-04-23"
    /\ pending # <<>>
    /\ pending[1].key = "2026-england"
    /\ pending[1].promise.value # Null
    /\ "2026-england" \in DOMAIN tracked.invoked

\* C27: between two clears the engine returns at most once per cache key,
\* whatever the order in which concurrent requests run and resume: a key
\* whose calendar the engine has produced is never missed again.
C27_EngineInvokedAtMostOnce ==
    \A k \in DOMAIN tracked.invoked : tracked.invoked[k] <= 1

C27_Witness ==
    /\ Len(pending) = 2
    /\ pending[1].key = pending[2].key
    /\ pending[1].promise.value # Null
    /\ pending[2].promise.value # Null
    /\ pending[1].key \in DOMAIN tracked.invoked
    /\ tracked.invoked[pending[1].key] = 1
    /\ pending[1].key \in DOMAIN calendarCache

====
